---- MODULE Spec2Model ----
(***************************************************************************)
(* Hebrew lecture processing backend (src/app.py): the in-memory job store *)
(* (JobManager), the two processing pipelines of HebrewLectureProcessor    *)
(* and the HTTP routes that drive them.                                    *)
(*                                                                         *)
(* Every accepted submission is handled by one request thread, which runs  *)
(* the pipeline inline.  A thread is identified by the id of the job it    *)
(* created.  One action is one step of a thread between two points where   *)
(* another thread can run (a store update, an I/O call, time.sleep).       *)
(***************************************************************************)
EXTENDS Integers, Sequences, FiniteSets, TLC

(* ------------------------------ bounds --------------------------------- *)
\* number of submissions that are accepted (uuid4 values handed out)
MaxJobs == 2

(* --------------------------- option values ----------------------------- *)
\* Python's None / an absent dict key, and a present value x
None == << >>
Some(x) == << x >>

(* ------------------------------ inputs --------------------------------- *)
\* JSON bodies of POST /process/url, as sets of <<key, value>> pairs;
\* the empty body stands for both a missing body and {} (both are falsy)
SampleUrl == "https://example.com/lecture.mp4"
UrlBodies ==
    { {},
      { <<"input_type", "video">> },
      { <<"source_url", SampleUrl>> } }

\* request.files of POST /process/upload: no file field, or the filename of it
NoFileField == "<no file field>"
UploadFiles == { NoFileField, "", "lecture.mp4" }

\* request.form['options'] of POST /process/upload: absent, or its text
NoOptionsField == "<no options field>"
OptionsJson == "{\"language\": \"he\"}"
UploadForms == { NoOptionsField, "{not json" }

\* descriptions str(e) of the failures the pipeline can meet
ErrOpen == "[Errno 2] No such file or directory"
ErrStage == "stage failed"
ErrUnlink == "[Errno 13] Permission denied"

\* file_type arguments of GET /download/<job_id>/<file_type>
FileTypes == { "transcript", "summary", "board_content", "slides" }

(* ------------------------------- state --------------------------------- *)
VARIABLES
    jobs,        \* job_manager.jobs: job_id -> job dict
    thread,      \* the request thread of each accepted submission
    tempfiles,   \* the temp files present on disk, as <<job_id, filename>>
    issued,      \* number of uuid4 values handed out so far
    clock,       \* datetime.now(), in ticks
    sent         \* the HTTP answer sent by the latest step, NoAnswer if none

vars == << jobs, thread, tempfiles, issued, clock, sent >>

JobIds == 1..MaxJobs

(* ----------------------------- dict helpers ---------------------------- *)
HasKey(d, k) == \E p \in d : p[1] = k
Get(d, k, default) == IF HasKey(d, k) THEN (CHOOSE p \in d : p[1] = k)[2] ELSE default

\* dict.update: the fields of updates replace those of job, the rest stay
DictUpdate(job, updates) ==
    [f \in DOMAIN job \cup DOMAIN updates |->
        IF f \in DOMAIN updates THEN updates[f] ELSE job[f]]

(* ------------------------------ JobManager ----------------------------- *)
\* A message is a sequence of text pieces: a plain message has one piece, the
\* f-string of the except handlers has its prefix and str(e).
NewJob(job_id, input_type, source, options, now) ==
    [ job_id        |-> job_id,
      status        |-> "pending",
      progress      |-> 0,
      current_stage |-> "receiving file",
      message       |-> << "submitted for processing" >>,
      created_at    |-> now,
      input_type    |-> input_type,
      source        |-> source,
      options       |-> options,
      results       |-> None,
      error         |-> None,
      completed_at  |-> None ]

\* a create_job that rebinds the dict instead of adding to it
create_job_Rebinds(store, job_id, input_type, source, options, now) ==
    [j \in {job_id} |-> NewJob(job_id, input_type, source, options, now)]

create_job(store, job_id, input_type, source, options, now) ==
    [j \in DOMAIN store \cup {job_id} |->
        IF j = job_id THEN NewJob(job_id, input_type, source, options, now)
        ELSE store[j]]

\* an update that stores the fields under an id the store does not hold
update_job_Upserts(store, job_id, updates) ==
    IF job_id \in DOMAIN store
    THEN [store EXCEPT ![job_id] = DictUpdate(@, updates)]
    ELSE [k \in DOMAIN store \cup { job_id } |->
            IF k = job_id THEN updates ELSE store[k]]

\* an update that writes the fields to every record of the store
update_job_Broadcast(store, job_id, updates) ==
    IF job_id \in DOMAIN store
    THEN [k \in DOMAIN store |-> DictUpdate(store[k], updates)]
    ELSE store

update_job(store, job_id, updates) ==
    IF job_id \in DOMAIN store
    THEN [store EXCEPT ![job_id] = DictUpdate(@, updates)]
    ELSE store

\* update_job has no return statement: it returns None whether or not the
\* id was found
update_job_returns(store, job_id) ==
    IF job_id \in DOMAIN store THEN None ELSE None

get_job(store, job_id) ==
    IF job_id \in DOMAIN store THEN Some(store[job_id]) ELSE None

delete_job(store, job_id) ==
    IF job_id \in DOMAIN store
    THEN [j \in DOMAIN store \ {job_id} |-> store[j]]
    ELSE store

\* delete_job has no return statement either
delete_job_returns(store, job_id) ==
    IF job_id \in DOMAIN store THEN None ELSE None

(* ------------------------ HebrewLectureProcessor ----------------------- *)
\* the same checkpoints with two of them in the wrong order
stages_Swapped ==
    << [progress |-> 25, current_stage |-> "transcribing audio",
        message |-> << "transcribing the lecture" >>],
       [progress |-> 65, current_stage |-> "organising topics",
        message |-> << "ordering by topic and time" >>],
       [progress |-> 45, current_stage |-> "analysing content",
        message |-> << "finding topics and examples" >>],
       [progress |-> 80, current_stage |-> "writing summary",
        message |-> << "writing a detailed summary" >>],
       [progress |-> 95, current_stage |-> "creating PDF",
        message |-> << "preparing PDF files" >>] >>

\* a stage list without the analysis stage
stages_SkipsAnalysis ==
    << [progress |-> 25, current_stage |-> "transcribing audio",
        message |-> << "transcribing the lecture" >>],
       [progress |-> 65, current_stage |-> "organising topics",
        message |-> << "ordering by topic and time" >>],
       [progress |-> 80, current_stage |-> "writing summary",
        message |-> << "writing a detailed summary" >>],
       [progress |-> 95, current_stage |-> "creating PDF",
        message |-> << "preparing PDF files" >>] >>

\* the checkpoints of _simulate_processing, in order
stages ==
    << [progress |-> 25, current_stage |-> "transcribing audio",
        message |-> << "transcribing the lecture" >>],
       [progress |-> 45, current_stage |-> "analysing content",
        message |-> << "finding topics and examples" >>],
       [progress |-> 65, current_stage |-> "organising topics",
        message |-> << "ordering by topic and time" >>],
       [progress |-> 80, current_stage |-> "writing summary",
        message |-> << "writing a detailed summary" >>],
       [progress |-> 95, current_stage |-> "creating PDF",
        message |-> << "preparing PDF files" >>] >>

NumStages == Len(stages)

\* a first update that leaves the status alone
UrlStartUpdates_KeepsStatus ==
    [ progress |-> 10,
      current_stage |-> "downloading file",
      message |-> << "downloading the file from the address" >> ]

UrlStartUpdates ==
    [ status |-> "processing", progress |-> 10,
      current_stage |-> "downloading file",
      message |-> << "downloading the file from the address" >> ]

FileStartUpdates ==
    [ status |-> "processing", progress |-> 15,
      current_stage |-> "uploading file",
      message |-> << "processing the uploaded file" >> ]

\* results whose file names all carry the id of the first job
generate_results_FirstJobsNames(job_id, input_type, source) ==
    [ generated_files |->
        << << 1, "_", "transcript", ".pdf" >>,
           << 1, "_", "summary", ".pdf" >>,
           << 1, "_", "board_content", ".pdf" >> >>,
      processing_summary |-> [ input_type |-> input_type, source |-> source ] ]

\* a file name f"{job_id}_{name}.pdf" is kept as its pieces
generate_results(job_id, input_type, source) ==
    [ generated_files |->
        << << job_id, "_", "transcript", ".pdf" >>,
           << job_id, "_", "summary", ".pdf" >>,
           << job_id, "_", "board_content", ".pdf" >> >>,
      processing_summary |-> [ input_type |-> input_type, source |-> source ] ]

\* a final update that leaves progress at the last checkpoint
CompletedUpdates_KeepsProgress(results, now) ==
    [ status |-> "completed",
      current_stage |-> "completed",
      message |-> << "processing completed successfully" >>,
      completed_at |-> Some(now),
      results |-> Some(results) ]

\* a final update that forgets the timestamp
CompletedUpdates_NoTimestamp(results, now) ==
    [ status |-> "completed", progress |-> 100,
      current_stage |-> "completed",
      message |-> << "processing completed successfully" >>,
      results |-> Some(results) ]

CompletedUpdates(results, now) ==
    [ status |-> "completed", progress |-> 100,
      current_stage |-> "completed",
      message |-> << "processing completed successfully" >>,
      completed_at |-> Some(now),
      results |-> Some(results) ]

\* a failure update that forgets the error text
FailedUpdates_NoError(e) ==
    [ status |-> "failed", message |-> << "processing error: ", e >> ]

FailedUpdates(e) ==
    [ status |-> "failed", error |-> Some(e),
      message |-> << "processing error: ", e >> ]

(* --------------------------- request threads --------------------------- *)
\* the locals of the thread that handles an accepted submission:
\*   route   "url" (POST /process/url) or "file" (POST /process/upload)
\*   pc      the next step of the handler
\*   i       number of checkpoints _simulate_processing has written
\*   source  source_url, or file.filename
\*   raised  str(e) of the exception the processor raised to the route
\*   resp    HTTP status of the answer sent, 0 while none is sent
NewThread(route, pc, source) ==
    [ route |-> route, pc |-> pc, i |-> 0, source |-> source,
      raised |-> None, resp |-> 0 ]

Spawn(job_id, t) ==
    [j \in DOMAIN thread \cup {job_id} |-> IF j = job_id THEN t ELSE thread[j]]

At(j, pc) == j \in DOMAIN thread /\ thread[j].pc = pc

RouteOf(j) == IF thread[j].route = "url" THEN "process_url" ELSE "process_upload"

\* an HTTP answer: the route, its argument, the status code and the body
Request(op, arg, code, body) ==
    [ op |-> op, arg |-> arg, code |-> code, body |-> body ]

NoAnswer == Request("none", None, 0, None)

(* ------------------------- POST /process/url --------------------------- *)
\* `not data or 'source_url' not in data`
UrlBodyRejected(data) == data = {} \/ ~HasKey(data, "source_url")

\* lines 390-402: validation, then create_job; the handler goes on in its
\* thread at processor.process_url
route_process_url(data) ==
    IF UrlBodyRejected(data)
    THEN /\ sent' = Request("process_url", data, 400, None)
         /\ UNCHANGED << jobs, thread, tempfiles, issued, clock >>
    ELSE /\ issued < MaxJobs
         /\ LET job_id == issued + 1
                source_url == Get(data, "source_url", "")
                input_type == Get(data, "input_type", "url")
                options == Get(data, "options", {})
            IN /\ jobs' = create_job(jobs, job_id, input_type, source_url,
                                     options, clock)
               /\ thread' = Spawn(job_id, NewThread("url", "start", source_url))
               /\ issued' = job_id
         /\ clock' = clock + 1
         /\ sent' = NoAnswer
         /\ UNCHANGED tempfiles

(* ------------------ HebrewLectureProcessor.process_url ----------------- *)
SetThread(j, field, value) == [thread EXCEPT ![j][field] = value]

\* lines 140-145: the first update of the pipeline
process_url_start(j) ==
    /\ At(j, "start") /\ thread[j].route = "url"
    /\ jobs' = update_job(jobs, j, UrlStartUpdates)
    /\ thread' = SetThread(j, "pc", "sim")
    /\ sent' = NoAnswer
    /\ UNCHANGED << tempfiles, issued, clock >>

\* lines 229-237: one turn of the loop of _simulate_processing: the update
\* of checkpoint i+1; the thread then sleeps
simulate_processing_step(j) ==
    /\ At(j, "sim") /\ thread[j].i < NumStages
    /\ jobs' = update_job(jobs, j, stages[thread[j].i + 1])
    /\ thread' = SetThread(j, "i", thread[j].i + 1)
    /\ sent' = NoAnswer
    /\ UNCHANGED << tempfiles, issued, clock >>

\* lines 164-171 and 210-217: the except handlers write the failure to the
\* record and raise again
process_url_except(store, j, e) == update_job(store, j, FailedUpdates(e))
process_file_except(store, j, e) == update_job(store, j, FailedUpdates(e))

Except(store, j, e) ==
    IF thread[j].route = "url" THEN process_url_except(store, j, e)
    ELSE process_file_except(store, j, e)

\* the `raise` that ends both except handlers: the route catches e
Raise(j, e) == [thread EXCEPT ![j].pc = "respond", ![j].raised = Some(e)]

\* a loop that records the failure of a stage and goes on to the next one
simulate_processing_raises_Continues(j) ==
    /\ At(j, "sim") /\ thread[j].i >= 1
    /\ jobs[j].status # "failed"
    /\ jobs' = Except(jobs, j, ErrStage)
    /\ sent' = NoAnswer
    /\ UNCHANGED << thread, tempfiles, issued, clock >>

\* the work of the stage whose checkpoint was written last fails (here the
\* work is time.sleep, which stands for the stage worker): the exception
\* leaves _simulate_processing and reaches the except handler of process_url
\* or process_file, and from there the route's `except`, lines 407 and 449
simulate_processing_raises(j) ==
    /\ At(j, "sim") /\ thread[j].i >= 1
    /\ jobs' = Except(jobs, j, ErrStage)
    /\ thread' = Raise(j, ErrStage)
    /\ sent' = NoAnswer
    /\ UNCHANGED << tempfiles, issued, clock >>

\* lines 150-162: _generate_results and the final update
process_url_complete(j) ==
    /\ At(j, "sim") /\ thread[j].i = NumStages /\ thread[j].route = "url"
    /\ jobs' = update_job(jobs, j,
                  CompletedUpdates(generate_results(j, "url", thread[j].source),
                                   clock))
    /\ clock' = clock + 1
    /\ thread' = SetThread(j, "pc", "respond")
    /\ sent' = NoAnswer
    /\ UNCHANGED << tempfiles, issued >>

\* a route whose `except` also writes to the record it has just caught for
route_respond_Writes(j) ==
    /\ At(j, "respond")
    /\ jobs' = IF thread[j].raised = None THEN jobs
               ELSE update_job(jobs, j, [ message |-> << "processing error" >> ])
    /\ thread' = [thread EXCEPT ![j].pc = "done", ![j].resp = 200]
    /\ sent' = Request(RouteOf(j), thread[j].source, 200,
                       Some([ job_id |-> j, status |-> "created" ]))
    /\ UNCHANGED << tempfiles, issued, clock >>

\* a route without the inner try: what the processor raises becomes a 500
route_respond_Propagates(j) ==
    /\ At(j, "respond")
    /\ thread' = [thread EXCEPT ![j].pc = "done",
                                ![j].resp = IF thread[j].raised = None THEN 200
                                            ELSE 500]
    /\ sent' = IF thread[j].raised = None
               THEN Request(RouteOf(j), thread[j].source, 200,
                            Some([ job_id |-> j, status |-> "created" ]))
               ELSE Request(RouteOf(j), thread[j].source, 500, None)
    /\ UNCHANGED << jobs, tempfiles, issued, clock >>

\* lines 405-415 and 447-457: the route has caught whatever the processor
\* raised and answers {job_id, status: "created"}
route_respond(j) ==
    /\ At(j, "respond")
    /\ thread' = [thread EXCEPT ![j].pc = "done", ![j].resp = 200]
    /\ sent' = Request(RouteOf(j), thread[j].source, 200,
                       Some([ job_id |-> j, status |-> "created" ]))
    /\ UNCHANGED << jobs, tempfiles, issued, clock >>

(* ------------------------ POST /process/upload ------------------------- *)
\* a validation that forgets the empty filename
UploadRejected_NoNameCheck(filename) == filename = NoFileField

\* `'file' not in request.files`, then `file.filename == ''`
UploadRejected(filename) == filename = NoFileField \/ filename = ""

\* json.loads of the options field: the decoded dict, or None when it raises
json_loads(text) ==
    IF text = OptionsJson THEN Some({ <<"language", "he">> }) ELSE None

\* lines 432-438
UploadOptions(form) ==
    IF form = NoOptionsField THEN {}
    ELSE IF json_loads(form) = None THEN {}
    ELSE json_loads(form)[1]

\* lines 423-441: validation, options, then create_job; the handler goes on
\* in its thread at file.read()
route_process_upload(filename, form) ==
    IF UploadRejected(filename)
    THEN /\ sent' = Request("process_upload", filename, 400, None)
         /\ UNCHANGED << jobs, thread, tempfiles, issued, clock >>
    ELSE /\ issued < MaxJobs
         /\ LET job_id == issued + 1
            IN /\ jobs' = create_job(jobs, job_id, "file", filename,
                                     UploadOptions(form), clock)
               /\ thread' = Spawn(job_id, NewThread("file", "read", filename))
               /\ issued' = job_id
         /\ clock' = clock + 1
         /\ sent' = NoAnswer
         /\ UNCHANGED tempfiles

\* line 444: file.read() returns the data
route_upload_read(j) ==
    /\ At(j, "read")
    /\ thread' = SetThread(j, "pc", "start")
    /\ sent' = NoAnswer
    /\ UNCHANGED << jobs, tempfiles, issued, clock >>

\* line 444 raises: it is outside the inner try, so lines 459-461 answer 500
\* and process_file is never called
route_upload_read_raises(j) ==
    /\ At(j, "read")
    /\ thread' = [thread EXCEPT ![j].pc = "done", ![j].resp = 500]
    /\ sent' = Request(RouteOf(j), thread[j].source, 500, None)
    /\ UNCHANGED << jobs, tempfiles, issued, clock >>

(* ----------------- HebrewLectureProcessor.process_file ----------------- *)
temp_path(j) == << j, thread[j].source >>

\* lines 177-182
process_file_start(j) ==
    /\ At(j, "start") /\ thread[j].route = "file"
    /\ jobs' = update_job(jobs, j, FileStartUpdates)
    /\ thread' = SetThread(j, "pc", "tmp")
    /\ sent' = NoAnswer
    /\ UNCHANGED << tempfiles, issued, clock >>

\* lines 185-187: the upload is written to the temp file
process_file_save(j) ==
    /\ At(j, "tmp")
    /\ tempfiles' = tempfiles \cup { temp_path(j) }
    /\ thread' = SetThread(j, "pc", "sim")
    /\ sent' = NoAnswer
    /\ UNCHANGED << jobs, issued, clock >>

\* lines 186-187 raise: open() fails and leaves no file, or f.write() fails
\* and leaves the file open() made
process_file_save_raises(j) ==
    /\ At(j, "tmp")
    /\ \E left \in { {}, { temp_path(j) } } : tempfiles' = tempfiles \cup left
    /\ jobs' = Except(jobs, j, ErrOpen)
    /\ thread' = Raise(j, ErrOpen)
    /\ sent' = NoAnswer
    /\ UNCHANGED << issued, clock >>

\* lines 193-197: _generate_results, then the temp file is removed
process_file_cleanup(j) ==
    /\ At(j, "sim") /\ thread[j].i = NumStages /\ thread[j].route = "file"
    /\ tempfiles' = tempfiles \ { temp_path(j) }
    /\ thread' = SetThread(j, "pc", "complete")
    /\ sent' = NoAnswer
    /\ UNCHANGED << jobs, issued, clock >>

\* line 197 raises: unlink() fails and the file stays
process_file_cleanup_raises(j) ==
    /\ At(j, "sim") /\ thread[j].i = NumStages /\ thread[j].route = "file"
    /\ temp_path(j) \in tempfiles
    /\ jobs' = Except(jobs, j, ErrUnlink)
    /\ thread' = Raise(j, ErrUnlink)
    /\ sent' = NoAnswer
    /\ UNCHANGED << tempfiles, issued, clock >>

\* lines 199-208: the final update
process_file_complete(j) ==
    /\ At(j, "complete")
    /\ jobs' = update_job(jobs, j,
                  CompletedUpdates(generate_results(j, "file", thread[j].source),
                                   clock))
    /\ clock' = clock + 1
    /\ thread' = SetThread(j, "pc", "respond")
    /\ sent' = NoAnswer
    /\ UNCHANGED << tempfiles, issued >>

(* ------------------------------ read routes ---------------------------- *)
\* lines 462-469: GET /status/<job_id>
StatusAnswer(store, job_id) ==
    IF get_job(store, job_id) = None
    THEN Request("status", job_id, 404, None)
    ELSE Request("status", job_id, 200, get_job(store, job_id))

\* a status read that also evicts the record once it is terminal
get_job_status_Evicts(job_id) ==
    /\ sent' = StatusAnswer(jobs, job_id)
    /\ jobs' = IF job_id \in DOMAIN jobs
                  /\ jobs[job_id].status \in { "completed", "failed" }
               THEN delete_job(jobs, job_id) ELSE jobs
    /\ UNCHANGED << thread, tempfiles, issued, clock >>

\* jsonify(job) copies the items of the dict in one step of the interpreter
\* (sorted(dct.items())), and dict.update of a pipeline thread is one step
\* too, so the read is one step between two updates
get_job_status(job_id) ==
    /\ sent' = StatusAnswer(jobs, job_id)
    /\ UNCHANGED << jobs, thread, tempfiles, issued, clock >>

\* a download that forgets to look at the status
DownloadAnswer_NoStatusCheck(store, job_id, file_type, pdf_ok) ==
    IF get_job(store, job_id) = None THEN << 404, None >>
    ELSE IF file_type \notin { "transcript", "summary", "board_content" }
         THEN << 400, None >>
    ELSE IF ~pdf_ok THEN << 500, None >>
    ELSE << 200, Some(<< file_type, "_", job_id, ".pdf" >>) >>

\* lines 470-502: GET /download/<job_id>/<file_type>, as <<code, body>>; the
\* body is the download_name of the attachment.  pdf_ok tells whether the
\* PDF generator returns; when it raises, lines 500-502 answer 500.
DownloadAnswer(store, job_id, file_type, pdf_ok) ==
    IF get_job(store, job_id) = None THEN << 404, None >>
    ELSE IF store[job_id].status # "completed" THEN << 400, None >>
    ELSE IF file_type \notin { "transcript", "summary", "board_content" }
         THEN << 400, None >>
    ELSE IF ~pdf_ok THEN << 500, None >>
    ELSE << 200, Some(<< file_type, "_", job_id, ".pdf" >>) >>

download_file(job_id, file_type) ==
    /\ \E pdf_ok \in BOOLEAN :
          sent' =
            Request("download", << job_id, file_type >>,
                    DownloadAnswer(jobs, job_id, file_type, pdf_ok)[1],
                    DownloadAnswer(jobs, job_id, file_type, pdf_ok)[2])
    /\ UNCHANGED << jobs, thread, tempfiles, issued, clock >>

\* lines 377-386: GET /health; the body is active_jobs
health_check ==
    /\ sent' = Request("health", None, 200, Some(Cardinality(DOMAIN jobs)))
    /\ UNCHANGED << jobs, thread, tempfiles, issued, clock >>

(* ---------------------------- specification ---------------------------- *)
Init ==
    /\ jobs = << >>
    /\ thread = << >>
    /\ tempfiles = {}
    /\ issued = 0
    /\ clock = 0
    /\ sent = NoAnswer

Next ==
    \/ \E data \in UrlBodies : route_process_url(data)
    \/ \E filename \in UploadFiles, form \in UploadForms :
          route_process_upload(filename, form)
    \/ \E j \in JobIds : process_url_start(j)
    \/ \E j \in JobIds : simulate_processing_step(j)
    \/ \E j \in JobIds : simulate_processing_raises(j)
    \/ \E j \in JobIds : process_url_complete(j)
    \/ \E j \in JobIds : route_upload_read(j)
    \/ \E j \in JobIds : route_upload_read_raises(j)
    \/ \E j \in JobIds : process_file_start(j)
    \/ \E j \in JobIds : process_file_save(j)
    \/ \E j \in JobIds : process_file_save_raises(j)
    \/ \E j \in JobIds : process_file_cleanup(j)
    \/ \E j \in JobIds : process_file_cleanup_raises(j)
    \/ \E j \in JobIds : process_file_complete(j)
    \/ \E j \in JobIds : route_respond(j)

Spec == Init /\ [][Next]_vars

\* the same, with clients that read while the pipelines run
ReadNext ==
    \/ Next
    \/ \E job_id \in JobIds : get_job_status(job_id)
    \/ \E job_id \in JobIds, file_type \in FileTypes : download_file(job_id, file_type)
    \/ health_check

ReadSpec == Init /\ [][ReadNext]_vars

\* job_manager.delete_job(job_id) called from outside the routes (no route
\* calls it): the administrative deletion of a record, at any moment; the
\* answer is what the call returns
call_delete_job(job_id) ==
    /\ jobs' = delete_job(jobs, job_id)
    /\ sent' = Request("delete_job", job_id, 0, delete_job_returns(jobs, job_id))
    /\ UNCHANGED << thread, tempfiles, issued, clock >>

AdminNext ==
    \/ Next
    \/ \E job_id \in JobIds : call_delete_job(job_id)

AdminSpec == Init /\ [][AdminNext]_vars

(* ------------------------------- claims -------------------------------- *)
Terminal(job) == job.status \in { "completed", "failed" }
Created(answer) ==
    answer.op \in { "process_url", "process_upload" } /\ answer.code = 200

\* C1: once a record is completed or failed, no step of any thread changes
\* any of its fields, so a status read of it answers the same content before
\* and after every later step (for as long as the record is in the store).
C1_TerminalRecordFrozen ==
    [][ \A j \in DOMAIN jobs :
          (Terminal(jobs[j]) /\ j \in DOMAIN jobs')
             => /\ jobs'[j] = jobs[j]
                /\ StatusAnswer(jobs', j) = StatusAnswer(jobs, j) ]_vars

\* a failed record whose thread has answered, while another job is processed
C1_Witness ==
    \E j \in DOMAIN jobs, k \in DOMAIN jobs :
        /\ jobs[j].status = "failed" /\ thread[j].pc = "done"
        /\ jobs[k].status = "processing" /\ jobs[k].progress >= 25

\* C2: whenever the answer {job_id, status: "created"} is sent, a status
\* read of that job_id finds the record, with status pending or processing.
C2_AnsweredBeforeTerminal ==
    Created(sent) =>
        LET answer == StatusAnswer(jobs, sent.body[1].job_id)
        IN /\ answer.code = 200
           /\ answer.body[1].status \in { "pending", "processing" }

\* C3: a record whose handler thread has ended (nothing is left that could
\* update it) is completed or failed, whatever was raised after create_job.
C3_EndedHandlerLeavesTerminal ==
    \A j \in DOMAIN thread :
        (thread[j].pc = "done" /\ j \in DOMAIN jobs) => Terminal(jobs[j])

\* C4: completed records hold results and no error, failed records hold an
\* error text and no results, pending and processing records hold neither.
C4_ResultsXorError ==
    \A j \in DOMAIN jobs :
        LET job == jobs[j]
        IN /\ job.status = "completed" =>
                /\ job.results # None
                /\ Len(job.results[1].generated_files) > 0
                /\ job.error = None
           /\ job.status = "failed" =>
                /\ job.error # None
                /\ job.error[1] # ""
                /\ job.results = None
           /\ ~Terminal(job) => (job.results = None /\ job.error = None)
           /\ job.results = None \/ job.error = None

\* a completed record and a failed record side by side
C4_Witness ==
    \E j \in DOMAIN jobs, k \in DOMAIN jobs :
        jobs[j].status = "completed" /\ jobs[k].status = "failed"

\* C5: the progress of a record never decreases from one step to the next,
\* so successive status reads never see it fall, on either path and whether
\* the job ends completed or failed.
C5_ProgressNeverDecreases ==
    [][ \A j \in DOMAIN jobs \cap DOMAIN jobs' :
          /\ jobs'[j].progress >= jobs[j].progress
          /\ StatusAnswer(jobs', j).body[1].progress
                >= StatusAnswer(jobs, j).body[1].progress ]_vars

\* a completed URL job beside a file job that failed after some checkpoints
C5_Witness ==
    \E j \in DOMAIN jobs, k \in DOMAIN jobs :
        /\ thread[j].route = "url" /\ jobs[j].status = "completed"
        /\ thread[k].route = "file" /\ jobs[k].status = "failed"
        /\ jobs[k].progress >= 45

\* C6: progress is 100 exactly in the completed records.
C6_HundredIffCompleted ==
    \A j \in DOMAIN jobs :
        jobs[j].progress = 100 <=> jobs[j].status = "completed"

\* a completed record beside one that failed at the last checkpoint
C6_Witness ==
    \E j \in DOMAIN jobs, k \in DOMAIN jobs :
        /\ jobs[j].status = "completed" /\ jobs[j].progress = 100
        /\ jobs[k].status = "failed" /\ jobs[k].progress = 95

\* C7 as stated: completed_at is present exactly in the terminal records
\* (completed or failed).
C7_CompletedAtIffTerminal ==
    \A j \in DOMAIN jobs : jobs[j].completed_at # None <=> Terminal(jobs[j])

\* C7 as amended: completed_at is present exactly in the completed records,
\* it appears in the step that makes the status completed, and once present
\* it never changes; a failed record has none.
C7_CompletedAtIffCompleted ==
    [][ \A j \in DOMAIN jobs' :
          /\ jobs'[j].completed_at # None <=> jobs'[j].status = "completed"
          /\ jobs'[j].status = "failed" => jobs'[j].completed_at = None
          /\ (j \in DOMAIN jobs /\ jobs[j].completed_at # None)
                => jobs'[j].completed_at = jobs[j].completed_at
          /\ (j \in DOMAIN jobs /\ jobs[j].status # "completed"
                /\ jobs'[j].status = "completed")
                => (jobs[j].completed_at = None
                    /\ jobs'[j].completed_at = Some(clock)) ]_vars

\* a record completed at an earlier tick than the present one, beside a
\* failed record
C7_Witness ==
    \E j \in DOMAIN jobs, k \in DOMAIN jobs :
        /\ jobs[j].status = "completed" /\ jobs[j].completed_at # None
        /\ jobs[j].completed_at[1] + 1 < clock
        /\ jobs[k].status = "failed"

\* C8: once a record is failed its thread is out of the pipeline (it only
\* has its answer left to send), and no later step writes a checkpoint or a
\* stage label to the record or makes it completed.
C8_FailFast ==
    [][ \A j \in DOMAIN jobs :
          jobs[j].status = "failed" =>
             /\ thread[j].pc \in { "respond", "done" }
             /\ thread'[j].pc \in { "respond", "done" }
             /\ thread'[j].i = thread[j].i
             /\ j \in DOMAIN jobs' =>
                   /\ jobs'[j].status = "failed"
                   /\ jobs'[j].progress = jobs[j].progress
                   /\ jobs'[j].current_stage = jobs[j].current_stage ]_vars

\* a job that failed in its second stage, three stages short of the end,
\* and whose handler has ended
C8_Witness ==
    \E j \in DOMAIN jobs :
        /\ jobs[j].status = "failed" /\ jobs[j].progress = 45
        /\ thread[j].i = 2 /\ thread[j].pc = "done"

\* C9: a thread whose processor raised never answers with an error: its
\* answer is the created one, and the record is failed with str(e) as error.
C9_FailureGoesToRecord ==
    \A j \in DOMAIN thread :
        thread[j].raised # None =>
           /\ thread[j].resp \in { 0, 200 }
           /\ thread[j].pc = "done" => thread[j].resp = 200
           /\ thread[j].pc \in { "respond", "done" }
           /\ j \in DOMAIN jobs =>
                 /\ jobs[j].status = "failed"
                 /\ jobs[j].error = thread[j].raised
           /\ (sent.op = RouteOf(j) /\ sent.code = 200
                 /\ sent.body[1].job_id = j) => thread[j].resp = 200

\* the created answer being sent for a job whose temp file could not be saved
C9_Witness ==
    \E j \in DOMAIN thread :
        /\ thread[j].raised = Some(ErrOpen)
        /\ Created(sent) /\ sent.body[1].job_id = j
        /\ jobs[j].status = "failed"

\* C10: a step that answers a submission with 400 leaves the store, the
\* threads and the disk as they were, and a step that adds a record comes
\* from a submission that names its source and is not answered with 400.
Rejected(answer) ==
    answer.op \in { "process_url", "process_upload" } /\ answer.code = 400

C10_RejectedCreatesNothing ==
    [][ /\ Rejected(sent') =>
             /\ jobs' = jobs
             /\ thread' = thread
             /\ issued' = issued
             /\ tempfiles' = tempfiles
        /\ \A j \in DOMAIN jobs' \ DOMAIN jobs :
             /\ ~Rejected(sent')
             /\ jobs'[j].source \notin { "", NoFileField }
             /\ thread'[j].source \notin { "", NoFileField } ]_vars

\* an upload with an empty filename is refused while the store holds records
C10_Witness ==
    /\ sent = Request("process_upload", "", 400, None)
    /\ Cardinality(DOMAIN jobs) >= 1

\* C11: a download of an unknown id is answered 404 whatever else is asked;
\* of a record that is not completed, 400; of a completed record under a
\* name that none of its generated files carries, 400; and an attachment is
\* delivered only for a completed record under the name of one of its files.
ArtifactNames(job) ==
    { job.results[1].generated_files[n][3] :
        n \in 1..Len(job.results[1].generated_files) }

C11_DownloadAnswers ==
    sent.op = "download" =>
        LET job_id == sent.arg[1]
            name == sent.arg[2]
            known == job_id \in DOMAIN jobs
            completed == known /\ jobs[job_id].status = "completed"
        IN /\ ~known => sent.code = 404
           /\ (known /\ ~completed) => sent.code = 400
           /\ (completed /\ name \notin ArtifactNames(jobs[job_id]))
                 => sent.code = 400
           /\ sent.code = 200 =>
                 /\ completed
                 /\ name \in ArtifactNames(jobs[job_id])
                 /\ sent.body = Some(<< name, "_", job_id, ".pdf" >>)
           /\ sent.body # None => sent.code = 200
           /\ sent.code \in { 200, 400, 404, 500 }

\* an artifact of a completed job is delivered while another job is processed
C11_Witness ==
    /\ sent.op = "download" /\ sent.code = 200
    /\ \E k \in DOMAIN jobs : jobs[k].status = "processing"

\* C12: a step that answers GET /status, GET /download or GET /health, with
\* whatever arguments and wherever the pipelines stand, leaves the store,
\* the threads and the disk as they were, and the body of a status answer
\* is the record exactly as the store holds it at that step.
C12_ReadsNeverMutate ==
    [][ sent'.op \in { "status", "download", "health" } =>
          /\ DOMAIN jobs' = DOMAIN jobs
          /\ \A j \in DOMAIN jobs : jobs'[j] = jobs[j]
          /\ thread' = thread
          /\ tempfiles' = tempfiles
          /\ issued' = issued
          /\ sent'.op = "status" =>
                IF sent'.arg \in DOMAIN jobs
                THEN sent'.code = 200 /\ sent'.body = Some(jobs[sent'.arg])
                ELSE sent'.code = 404 /\ sent'.body = None
          /\ sent'.op = "health" =>
                sent'.body = Some(Cardinality(DOMAIN jobs)) ]_vars

\* a status read that catches a record in the middle of its pipeline
C12_Witness ==
    /\ sent.op = "status" /\ sent.code = 200
    /\ sent.body[1].status = "processing" /\ sent.body[1].progress = 45
    /\ thread[sent.arg].pc = "sim"

\* C13: a step that calls create_job adds exactly one record, under an id
\* that no record and no handler ever had; the record is pending with
\* progress 0, no results and no error, and carries its id, and every
\* record that was in the store stays as it was.
C13_CreateAddsOneFreshRecord ==
    [][ issued' # issued =>
          \E new \in JobIds :
             /\ new \notin DOMAIN jobs /\ new \notin DOMAIN thread
             /\ new \notin 1..issued
             /\ DOMAIN jobs' = DOMAIN jobs \cup { new }
             /\ \A j \in DOMAIN jobs : jobs'[j] = jobs[j]
             /\ jobs'[new].job_id = new
             /\ jobs'[new].status = "pending"
             /\ jobs'[new].progress = 0
             /\ jobs'[new].results = None
             /\ jobs'[new].error = None
             /\ jobs'[new].completed_at = None ]_vars

\* a second record is created while the first is in the middle of its
\* pipeline
C13_Witness ==
    /\ DOMAIN jobs = { 1, 2 }
    /\ jobs[2].status = "pending" /\ jobs[2].progress = 0
    /\ jobs[1].status = "processing" /\ jobs[1].progress = 65

\* C14: update_job and delete_job on an id that is not in the store leave
\* the store unchanged and return something else than they return for an id
\* that is in the store (NotFound).
C14_AbsentIdReportsNotFound ==
    [][ /\ (sent'.op = "delete_job" /\ sent'.arg \notin DOMAIN jobs) =>
             /\ jobs' = jobs
             /\ \A k \in DOMAIN jobs :
                   sent'.body # delete_job_returns(jobs, k)
        /\ \A job_id \in JobIds \ DOMAIN jobs :
             /\ update_job(jobs, job_id, UrlStartUpdates) = jobs
             /\ \A k \in DOMAIN jobs :
                   update_job_returns(jobs, job_id)
                      # update_job_returns(jobs, k) ]_vars

\* C15: every completed job, of either route, has results whose
\* generated_files are exactly 3 distinct names, each built from the job's
\* own id.
C15_ThreeOwnArtifacts ==
    \A j \in DOMAIN jobs :
        jobs[j].status = "completed" =>
            /\ jobs[j].results # None
            /\ LET files == jobs[j].results[1].generated_files
               IN /\ Len(files) = 3
                  /\ Cardinality({ files[n] : n \in 1..Len(files) }) = 3
                  /\ \A n \in 1..Len(files) :
                        /\ files[n][1] = j
                        /\ files[n][2] = "_"
                        /\ files[n][4] = ".pdf"

C15_Witness ==
    /\ DOMAIN jobs = { 1, 2 }
    /\ jobs[1].status = "completed" /\ jobs[2].status = "completed"
    /\ jobs[1].input_type # jobs[2].input_type
    /\ jobs[2].results[1].generated_files[1][1] = 2

\* C16: a record enters the store pending, and the only changes of status
\* it ever makes are pending -> processing, processing -> completed and
\* processing -> failed.
C16_StatusTransitions ==
    [][ /\ \A j \in DOMAIN jobs' \ DOMAIN jobs : jobs'[j].status = "pending"
        /\ \A j \in DOMAIN jobs \cap DOMAIN jobs' :
              jobs'[j].status # jobs[j].status =>
                 << jobs[j].status, jobs'[j].status >> \in
                    { << "pending", "processing" >>,
                      << "processing", "completed" >>,
                      << "processing", "failed" >> } ]_vars

C16_Witness ==
    /\ DOMAIN jobs = { 1, 2 }
    /\ jobs[1].status = "failed" /\ jobs[1].progress = 45
    /\ jobs[2].status = "completed" /\ jobs[2].input_type = "file"

\* C17: every write of progress to a job's record moves it to the next
\* checkpoint of 0, 10, 25, 45, 65, 80, 95, 100 (URL job) or of
\* 0, 15, 25, 45, 65, 80, 95, 100 (file job): none skipped, none repeated,
\* none out of order, 100 only after 95.  A failure update writes no
\* progress.
Checkpoints(input_type) ==
    IF input_type = "url" THEN << 0, 10, 25, 45, 65, 80, 95, 100 >>
                          ELSE << 0, 15, 25, 45, 65, 80, 95, 100 >>

C17_CheckpointsInOrder ==
    [][ \A j \in DOMAIN jobs \cap DOMAIN jobs' :
           /\ jobs'[j].input_type = jobs[j].input_type
           /\ jobs'[j] # jobs[j] =>
                 IF jobs'[j].status = "failed"
                 THEN jobs'[j].progress = jobs[j].progress
                 ELSE LET seq == Checkpoints(jobs[j].input_type)
                      IN \E n \in 1..(Len(seq) - 1) :
                            /\ jobs[j].progress = seq[n]
                            /\ jobs'[j].progress = seq[n + 1] ]_vars

C17_Witness ==
    /\ DOMAIN jobs = { 1, 2 }
    /\ jobs[1].input_type = "url" /\ jobs[1].progress = 100
    /\ jobs[2].input_type = "file" /\ jobs[2].progress = 95
    /\ jobs[2].status = "processing"

\* C18: jobs are independent.  A step changes the record of at most one
\* job, the job whose own handler took the step, and leaves every other
\* handler where it was; and a record is decided by the position of its own
\* handler alone: two jobs whose handlers are at the same position have the
\* same record (ids, names built from ids and timestamps apart), whatever
\* the other jobs did meanwhile.
OwnFields(job) ==
    [ status |-> job.status, progress |-> job.progress,
      current_stage |-> job.current_stage, message |-> job.message,
      error |-> job.error, has_results |-> job.results # None,
      has_completed_at |-> job.completed_at # None ]

Position(t) == [ route |-> t.route, pc |-> t.pc, i |-> t.i, raised |-> t.raised ]

C18_JobsIndependent ==
    [][ /\ \A j \in DOMAIN jobs \cap DOMAIN jobs' :
              jobs'[j] # jobs[j] =>
                 /\ thread'[j] # thread[j]
                 /\ \A k \in (DOMAIN jobs \cap DOMAIN jobs') \ { j } :
                       jobs'[k] = jobs[k] /\ thread'[k] = thread[k]
        /\ \A j, k \in DOMAIN jobs' :
              Position(thread'[j]) = Position(thread'[k]) =>
                 OwnFields(jobs'[j]) = OwnFields(jobs'[k]) ]_vars

C18_Witness ==
    /\ DOMAIN jobs = { 1, 2 }
    /\ jobs[1].status = "failed" /\ jobs[1].progress = 25
    /\ thread[2].pc = "sim" /\ thread[2].i = 3 /\ jobs[2].progress = 65
    /\ thread[1].route = thread[2].route

\* C19: a record enters the store only in a step that calls create_job, and
\* only under the id issued in that step; update_job on an absent id gives
\* the store back as it was; so a job whose record was deleted while its
\* handler is still running stays absent at every later step, and a status
\* read of it answers 404.
C19_OnlyCreateInserts ==
    [][ /\ \A j \in DOMAIN jobs' \ DOMAIN jobs :
              issued' = issued + 1 /\ j = issued'
        /\ \A j \in DOMAIN thread \ DOMAIN jobs :
              /\ j \notin DOMAIN jobs'
              /\ StatusAnswer(jobs', j) = Request("status", j, 404, None)
        /\ \A j \in JobIds \ DOMAIN jobs, n \in 1..NumStages :
              update_job(jobs, j, stages[n]) = jobs ]_vars

\* the only job was deleted during its pipeline, and its handler has since
\* written its last checkpoint
C19_Witness ==
    /\ issued = 1 /\ DOMAIN jobs = {}
    /\ thread[1].pc = "sim" /\ thread[1].i = NumStages
    /\ sent = NoAnswer

\* C20: whenever the record of a file-upload job is completed or failed,
\* the temporary file process_file wrote for it is no longer on the disk.
C20_TempFileGoneWhenTerminal ==
    \A j \in DOMAIN jobs :
        (thread[j].route = "file" /\ Terminal(jobs[j]))
            => temp_path(j) \notin tempfiles

====
